---- MODULE Spec2Model ----
(***************************************************************************)
(* Model of the TaiSEIA serial <-> TCP bridge (py_tcp_bridge.py) and of    *)
(* the twseia facade functions it calls.                                   *)
(*                                                                         *)
(* Two threads share one SerialToNet object:                               *)
(*   - the serial reader thread (serial.threaded.ReaderThread) calls       *)
(*     SerialToNet.data_received for every chunk read from the port;       *)
(*   - the main thread accepts a client, reads its text commands and       *)
(*     writes to the serial port.                                          *)
(* Each thread is a program counter; a step is one access to shared state. *)
(*                                                                         *)
(* Spec is the listening bridge with default options, SpecArgs the bridge  *)
(* under every command line with transport faults and operator interrupts, *)
(* SpecFacade the response parsers of the twseia facade.                   *)
(*                                                                         *)
(* Text is a sequence of one-character strings, bytes are integers.        *)
(***************************************************************************)
EXTENDS Integers, Sequences, FiniteSets, TLC

(***************************************************************************)
(* Bounds of the model.                                                    *)
(***************************************************************************)
\* longest assembler buffer explored
MaxBuf == 3
\* longest chunk handed to data_received in one call
MaxChunk == 3
\* connections accepted in one run of the model
MaxConns == 2
\* longest data field of a response packet given to a parser
MaxData == 3

\* the largest value of a byte
MaxByte == 255

\* byte values fed by the serial device: the headers 0 and 1, the header of
\* the longest frame the buffer bound allows
SerialBytes == {0, 1, MaxBuf}

\* Python's None for SerialToNet.cmd_sent
None == "None"
\* Python's None for SerialToNet.socket (sockets are numbered from 1)
NoSocket == 0
\* Python's None for SerialToNet.sa_type_id
NoTypeId == -1

(***************************************************************************)
(* Text helpers: str.lower, str.replace, str.split, str.find, int().        *)
(***************************************************************************)
UpperLetters == <<"A","B","C","D","E","F","G","H","I","J","K","L","M",
                  "N","O","P","Q","R","S","T","U","V","W","X","Y","Z">>
LowerLetters == <<"a","b","c","d","e","f","g","h","i","j","k","l","m",
                  "n","o","p","q","r","s","t","u","v","w","x","y","z">>
DecDigits == <<"0","1","2","3","4","5","6","7","8","9">>
HexDigits == <<"0","1","2","3","4","5","6","7","8","9",
               "a","b","c","d","e","f">>

\* one character of str.lower()
LowerChar(c) ==
    IF \E i \in 1..26 : UpperLetters[i] = c
    THEN LowerLetters[CHOOSE i \in 1..26 : UpperLetters[i] = c]
    ELSE c

\* str.lower()
Lower(s) == [i \in 1..Len(s) |-> LowerChar(s[i])]

\* data.decode('utf-8').replace('\r', '').replace('\n', '')
StripNewlines(s) == SelectSeq(s, LAMBDA c : c \notin {"\r", "\n"})

\* index (1-based) of the first "," of s, 0 when there is none
FirstComma(s) ==
    IF \E i \in 1..Len(s) : s[i] = ","
    THEN CHOOSE i \in 1..Len(s) :
            s[i] = "," /\ \A j \in 1..(i-1) : s[j] # ","
    ELSE 0

RECURSIVE Split(_)
\* str.split(','): '' gives [''], 'a,,b' gives ['a', '', 'b']
Split(s) ==
    LET k == FirstComma(s) IN
    IF k = 0 THEN << s >>
    ELSE << SubSeq(s, 1, k-1) >> \o Split(SubSeq(s, k+1, Len(s)))

\* txt_cmd.find('0x') == 0
StartsWith0x(s) == Len(s) >= 2 /\ s[1] = "0" /\ s[2] = "x"

\* str.strip() as int() applies it to its argument (blanks only)
RECURSIVE StripLeft(_)
StripLeft(s) ==
    IF s # <<>> /\ s[1] = " " THEN StripLeft(Tail(s)) ELSE s
RECURSIVE StripRight(_)
StripRight(s) ==
    IF s # <<>> /\ s[Len(s)] = " "
    THEN StripRight(SubSeq(s, 1, Len(s)-1)) ELSE s
Strip(s) == StripRight(StripLeft(s))

\* value of one digit character in the given base, -1 when it is no digit
DigitValue(c, base) ==
    LET lc == LowerChar(c) IN
    IF \E i \in 1..base : HexDigits[i] = lc
    THEN (CHOOSE i \in 1..base : HexDigits[i] = lc) - 1
    ELSE -1

RECURSIVE DigitsValue(_, _, _)
\* value of a non-empty run of digits, most significant first
DigitsValue(s, base, acc) ==
    IF s = <<>> THEN acc
    ELSE DigitsValue(Tail(s), base, acc * base + DigitValue(s[1], base))

\* int(n) and int(n, 16) on text without '_': blanks around the number,
\* an optional sign and, in base 16, an optional 0x / 0X prefix are
\* accepted.  ok = FALSE stands for ValueError.
ParseInt(tok, base) ==
    LET t == Strip(tok)
        signed == t # <<>> /\ t[1] \in {"+", "-"}
        u == IF signed THEN Tail(t) ELSE t
        prefixed == base = 16 /\ Len(u) >= 2 /\ u[1] = "0"
                    /\ u[2] \in {"x", "X"}
        d == IF prefixed THEN SubSeq(u, 3, Len(u)) ELSE u
        good == d # <<>> /\ \A i \in 1..Len(d) : DigitValue(d[i], base) >= 0
        mag == IF good THEN DigitsValue(d, base, 0) ELSE 0
    IN  [ok |-> good,
         val |-> IF signed /\ t[1] = "-" THEN 0 - mag ELSE mag]

RECURSIVE DecimalText(_)
\* f'{n}' for a byte n >= 0
DecimalText(n) ==
    IF n < 10 THEN << DecDigits[n + 1] >>
    ELSE DecimalText(n \div 10) \o << DecDigits[(n % 10) + 1] >>

RECURSIVE JoinCommaSpace(_)
\* ', '.join([f'{n}' for n in buffer])
JoinCommaSpace(bytes) ==
    IF bytes = <<>> THEN <<>>
    ELSE IF Len(bytes) = 1 THEN DecimalText(bytes[1])
    ELSE DecimalText(bytes[1]) \o <<",", " ">> \o JoinCommaSpace(Tail(bytes))

\* response = ', '.join(...) + '\n'
RawResponse(bytes) == JoinCommaSpace(bytes) \o << "\n" >>

(***************************************************************************)
(* Client input: the text one client_socket.recv(1024) returns.            *)
(***************************************************************************)
\* 'exit'
TxtExit == <<"e","x","i","t">>
\* 'EXIT'
TxtExitUpper == <<"E","X","I","T">>
\* 'Exit\r\n'
TxtExitCrLf == <<"E","x","i","t","\r","\n">>
\* 'register'
TxtRegister == <<"r","e","g","i","s","t","e","r">>
\* 'REGISTER\n'
TxtRegisterUpper == <<"R","E","G","I","S","T","E","R","\n">>
\* 'Register,now'
TxtRegisterArgs == <<"R","e","g","i","s","t","e","r",",","n","o","w">>
\* 'states'
TxtStates == <<"s","t","a","t","e","s">>
\* 'States\r\n'
TxtStatesMixed == <<"S","t","a","t","e","s","\r","\n">>
\* 'foo'
TxtFoo == <<"f","o","o">>
\* '\n'
TxtNewline == <<"\n">>
\* 'exit,1'
TxtExitArgs == <<"e","x","i","t",",","1">>
\* '1,2,3,4,5,6'
TxtDec == <<"1",",","2",",","3",",","4",",","5",",","6">>
\* '0x01,0x02,0x03,0x04,0x05,0x06'
TxtHex == <<"0","x","0","1",",","0","x","0","2",",","0","x","0","3",",","0","x","0","4",",","0","x","0","5",",","0","x","0","6">>
\* '10,255,0,7,8,9\n'
TxtDecWide == <<"1","0",",","2","5","5",",","0",",","7",",","8",",","9","\n">>
\* '0xff,10,0A,0,1,2'
TxtHexMixed == <<"0","x","f","f",",","1","0",",","0","A",",","0",",","1",",","2">>
\* 'a,b,c,d,e,f'
TxtWords == <<"a",",","b",",","c",",","d",",","e",",","f">>
\* '256,1,2,3,4,5'
TxtTooBig == <<"2","5","6",",","1",",","2",",","3",",","4",",","5">>
\* '0X01,2,3,4,5,6'
TxtUpperPrefix == <<"0","X","0","1",",","2",",","3",",","4",",","5",",","6">>

\* the data the model lets a client send
ClientData ==
    {TxtExit, TxtExitUpper, TxtExitCrLf,
     TxtRegister, TxtRegisterUpper, TxtRegisterArgs,
     TxtStates, TxtStatesMixed,
     TxtFoo, TxtNewline, TxtExitArgs,
     TxtDec, TxtHex, TxtDecWide, TxtHexMixed,
     TxtWords, TxtTooBig, TxtUpperPrefix}

(***************************************************************************)
(* twseia facade and the serial PDUs.                                      *)
(***************************************************************************)
\* a write to the serial port: an encoded InfoRequest or six raw bytes
InfoRequestPdu(info) == [kind |-> "InfoRequest", sa_info_type |-> info,
                         bytes |-> <<>>]
RawBytesPdu(bs) == [kind |-> "bytearray", sa_info_type |-> "-", bytes |-> bs]

\* twseia.create_sa_class_id_cmd(), the facade's next request builder
create_sa_class_id_cmd == InfoRequestPdu("READ_CLASS_ID")

\* twseia.create_sa_register_cmd()
create_sa_register_cmd == InfoRequestPdu("REGISTRATION")
\* twseia.create_read_all_states_cmd()
create_read_all_states_cmd == InfoRequestPdu("READ_CURRENT_SERVICES_STATES")

\* SARegisterServiceIDEnum members the parsers of the facade compare with
ServiceIds == {"READ_CLASS_ID", "READ_PROTOCOL_VERSION", "READ_TYPE_ID",
               "READ_BRAND", "READ_MODEL", "READ_SUPPORTED_SERVICES",
               "READ_CURRENT_SERVICES_STATES"}

\* SAInfoResponsePacket.from_pdu(pdu): the service id and the data bytes
Packet(service_id, data_bytes) ==
    [service_id |-> service_id, data_bytes |-> data_bytes]

\* the two ways a parser ends
Return(v) == [ok |-> TRUE, err |-> "none", value |-> v]
Raise(e) == [ok |-> FALSE, err |-> e, value |-> <<>>]

\* int.from_bytes(data_bytes, 'big')
RECURSIVE IntFromBytes(_)
IntFromBytes(bs) ==
    IF bs = <<>> THEN 0
    ELSE IntFromBytes(SubSeq(bs, 1, Len(bs) - 1)) * (MaxByte + 1)
         + bs[Len(bs)]

\* bytearray(data_bytes[:-1]).decode('utf-8'), for bytes that are ASCII or
\* can start no character: the code points, or UnicodeDecodeError
DecodeButLast(bs) ==
    LET body == SubSeq(bs, 1, Len(bs) - 1) IN
    IF \A i \in 1..Len(body) : body[i] < 128
    THEN Return(body) ELSE Raise("UnicodeDecodeError")

\* Dehumidifier.convert_dev_specific_service on one fixed-length record:
\* the service id and its 16-bit value, or a malformed record
convert_dev_specific_service(rec) ==
    IF Len(rec) # 3 THEN Raise("MalformedStatesBlock")
    ELSE Return([service_id |-> rec[1] % 128,
                 value |-> rec[2] * (MaxByte + 1) + rec[3]])

\* the while loops of lines 124-130 and 146-155 over data_bytes[n:n+3]
RECURSIVE ConvertRecords(_)
ConvertRecords(bs) ==
    IF bs = <<>> THEN Return(<<>>)
    ELSE LET k == IF Len(bs) < 3 THEN Len(bs) ELSE 3
             service == convert_dev_specific_service(SubSeq(bs, 1, k))
             rest == ConvertRecords(SubSeq(bs, k + 1, Len(bs)))
         IN  IF ~ service.ok THEN service
             ELSE IF ~ rest.ok THEN rest
             ELSE Return(<<service.value>> \o rest.value)

\* twseia.parsing_sa_class_id_response
parsing_sa_class_id_response(packet) ==
    IF packet.service_id # "READ_CLASS_ID" THEN Raise("ValueError")
    ELSE Return(<<IntFromBytes(packet.data_bytes)>>)

\* twseia.parsing_sa_protocol_version_response
parsing_sa_protocol_version_response(packet) ==
    IF packet.service_id # "READ_PROTOCOL_VERSION" THEN Raise("ValueError")
    ELSE IF Len(packet.data_bytes) # 2 THEN Raise("ValueError")
    ELSE Return(<<packet.data_bytes[1], packet.data_bytes[2]>>)

\* twseia.parsing_sa_dev_type_response
parsing_sa_dev_type_response(packet) ==
    IF packet.service_id # "READ_TYPE_ID" THEN Raise("ValueError")
    ELSE Return(<<IntFromBytes(packet.data_bytes)>>)

\* twseia.parsing_sa_brand_response
parsing_sa_brand_response(packet) ==
    IF packet.service_id # "READ_BRAND" THEN Raise("ValueError")
    ELSE DecodeButLast(packet.data_bytes)

\* twseia.parsing_sa_model_response
parsing_sa_model_response(packet) ==
    IF packet.service_id # "READ_MODEL" THEN Raise("ValueError")
    ELSE DecodeButLast(packet.data_bytes)

\* twseia.parsing_dehumidifier_services_response, is_fixed_len_pdu=True
parsing_dehumidifier_services_response(packet) ==
    ConvertRecords(packet.data_bytes)

\* twseia.parsing_dehumidifier_all_states_response, is_fixed_len_pdu=True
parsing_dehumidifier_all_states_response(packet) ==
    ConvertRecords(packet.data_bytes)

\* a reply sent to the client
RegisterReply(pdu) == [kind |-> "register", text |-> <<>>, pdu |-> pdu]
StatesReply(pdu) == [kind |-> "states", text |-> <<>>, pdu |-> pdu]
RawReply(pdu) == [kind |-> "raw", text |-> RawResponse(pdu), pdu |-> <<>>]

(***************************************************************************)
(* State.                                                                  *)
(***************************************************************************)
VARIABLES
    socket,         \* SerialToNet.socket: NoSocket or the client socket
    buffer,         \* SerialToNet.buffer: bytes of the frame being assembled
    cmd_sent,       \* SerialToNet.cmd_sent: the pending command
    sa_type_id,     \* SerialToNet.sa_type_id
    rd_pc,          \* reader thread: position inside data_received
    rd_cmd,         \* reader thread: the branch chosen from cmd_sent
    rd_sock,        \* reader thread: the socket loaded for sendall
    rd_err,         \* reader thread: exception that ended it, or "none"
    main_pc,        \* main thread: position in the connection loop
    txt_cmd,        \* main thread: the command text being dispatched
    exc,            \* main thread: exception propagating out of the loop
    client_socket,  \* main thread: number of the socket accepted last
    sock_open,      \* whether client_socket is open
    ser_out,        \* what the last step wrote to the serial port
    net_out,        \* what the last step sent to the client
    args,           \* the parsed command line: client, develop, SA_TYPE_ID
    slept,          \* main thread: seconds of its most recent time.sleep
    facade          \* the last call of a twseia response parser

vars == << socket, buffer, cmd_sent, sa_type_id, rd_pc, rd_cmd, rd_sock,
           rd_err, main_pc, txt_cmd, exc, client_socket, sock_open,
           ser_out, net_out, args, slept, facade >>

rd_vars == << rd_pc, rd_cmd, rd_sock, rd_err >>
main_vars == << main_pc, txt_cmd, exc, client_socket, sock_open, args,
               slept >>

\* a step that writes nothing to the port and sends nothing to the client
NoOutput == ser_out' = <<>> /\ net_out' = <<>>

\* chunks the serial port can deliver in one read
Chunks == UNION { [1..n -> SerialBytes] : n \in 1..MaxChunk }

\* 0 < len(self.buffer) == self.buffer[0]
FrameComplete(buf) == 0 < Len(buf) /\ Len(buf) = buf[1]

\* time.sleep(5): the delay before the client role connects again
ReconnectDelay == 5

\* SATypeIDEnum values a bridge can be started with
AIR_CONDITIONER == 1
DEHUMIDIFIER == 4
SaTypeIds == {AIR_CONDITIONER, DEHUMIDIFIER}

\* parser.parse_args(): the options that steer the main loop
ArgsSet == [client : BOOLEAN, develop : BOOLEAN, sa_type_id : SaTypeIds]
\* a listening bridge (no --client, no --develop) for a dehumidifier
ServerArgs == [client |-> FALSE, develop |-> FALSE,
               sa_type_id |-> DEHUMIDIFIER]

\* no parser of the facade has been called
NoCall == [fn |-> "none", packet |-> Packet("none", <<>>),
           result |-> Raise("none")]

\* SerialToNet.__init__ and the start of the main loop, for the parsed
\* command line a
Start(a) ==
    /\ socket = NoSocket
    /\ buffer = <<>>
    /\ cmd_sent = None
    /\ sa_type_id = NoTypeId
    /\ rd_pc = "idle"
    /\ rd_cmd = None
    /\ rd_sock = NoSocket
    /\ rd_err = "none"
    /\ main_pc = IF a.client THEN "connect" ELSE "accept"
    /\ txt_cmd = <<>>
    /\ exc = "none"
    /\ client_socket = 0
    /\ sock_open = FALSE
    /\ ser_out = <<>>
    /\ net_out = <<>>
    /\ args = a
    /\ slept = 0
    /\ facade = NoCall

\* the bridge started as a server
Init == Start(ServerArgs)

\* the bridge started with any command line
InitArgs == \E a \in ArgsSet : Start(a)

\* both threads stop when the main thread dies of an uncaught exception
\* (the reader is a daemon thread) or leaves through serial_worker.stop();
\* until then the reader goes on, also after the last socket is closed
Running == main_pc \notin {"crashed", "exited"}

(***************************************************************************)
(* Reader thread: SerialToNet.data_received.                               *)
(***************************************************************************)
\* lines 30-34: drop the data without a client, else append and test
DataReceived(data_bytes) ==
    /\ Running
    /\ rd_pc = "idle"
    /\ Len(buffer) + Len(data_bytes) <= MaxBuf
    /\ IF socket = NoSocket
       THEN UNCHANGED << buffer, rd_pc >>
       ELSE /\ buffer' = buffer \o data_bytes
            /\ rd_pc' = IF FrameComplete(buffer') THEN "dispatch" ELSE "idle"
    /\ NoOutput
    /\ UNCHANGED << socket, cmd_sent, sa_type_id, rd_cmd, rd_sock, rd_err,
                    main_vars >>
    /\ UNCHANGED facade

\* line 38: if self.cmd_sent == 'register'
RdReadCmd ==
    /\ Running
    /\ rd_pc = "dispatch"
    /\ IF cmd_sent = "register"
       THEN rd_cmd' = "register" /\ rd_pc' = "load"
       ELSE rd_cmd' = rd_cmd /\ rd_pc' = "dispatch2"
    /\ NoOutput
    /\ UNCHANGED << socket, buffer, cmd_sent, sa_type_id, rd_sock, rd_err,
                    main_vars >>
    /\ UNCHANGED facade

\* line 41: elif self.cmd_sent == 'states', a second read of the field
RdReadCmd2 ==
    /\ Running
    /\ rd_pc = "dispatch2"
    /\ rd_cmd' = IF cmd_sent = "states" THEN "states" ELSE "else"
    /\ rd_pc' = "load"
    /\ NoOutput
    /\ UNCHANGED << socket, buffer, cmd_sent, sa_type_id, rd_sock, rd_err,
                    main_vars >>
    /\ UNCHANGED facade

\* lines 39, 42, 45: evaluate self.socket.sendall
RdLoadSocket ==
    /\ Running
    /\ rd_pc = "load"
    /\ socket # NoSocket
    /\ rd_sock' = socket
    /\ rd_pc' = "send"
    /\ NoOutput
    /\ UNCHANGED << socket, buffer, cmd_sent, sa_type_id, rd_cmd, rd_err,
                    main_vars >>
    /\ UNCHANGED facade

\* the same with self.socket already None: AttributeError ends the thread
RdLoadNone ==
    /\ Running
    /\ rd_pc = "load"
    /\ socket = NoSocket
    /\ rd_pc' = "dead"
    /\ rd_err' = "AttributeError"
    /\ NoOutput
    /\ UNCHANGED << socket, buffer, cmd_sent, sa_type_id, rd_cmd, rd_sock,
                    main_vars >>
    /\ UNCHANGED facade

\* whether the decoder of the branch can return: the facade has no
\* parsing_sa_all_states_response, so line 42 raises for every type id
CanDecode(cmd, type_id) == cmd # "states"

\* the reply the branch sends
ReplyFor(cmd, pdu) ==
    IF cmd = "register" THEN RegisterReply(pdu)
    ELSE IF cmd = "states" THEN StatesReply(pdu)
    ELSE RawReply(pdu)

\* lines 39-43: the register decoder raises, or the lookup of
\* twseia.parsing_sa_all_states_response raises AttributeError; nothing is
\* sent, lines 47-48 are skipped
RdDecodeFail ==
    /\ Running
    /\ rd_pc = "send"
    /\ rd_cmd \in {"register", "states"}
    /\ rd_pc' = "dead"
    /\ rd_err' = IF rd_cmd = "states" THEN "AttributeError" ELSE "CodecError"
    /\ NoOutput
    /\ UNCHANGED << socket, buffer, cmd_sent, sa_type_id, rd_cmd, rd_sock,
                    main_vars >>
    /\ UNCHANGED facade

\* lines 39-45: sendall on a socket the main thread has closed: OSError
RdSendClosed ==
    /\ Running
    /\ rd_pc = "send"
    /\ CanDecode(rd_cmd, sa_type_id)
    /\ ~ (rd_sock = client_socket /\ sock_open)
    /\ rd_pc' = "dead"
    /\ rd_err' = "OSError"
    /\ NoOutput
    /\ UNCHANGED << socket, buffer, cmd_sent, sa_type_id, rd_cmd, rd_sock,
                    main_vars >>
    /\ UNCHANGED facade

\* lines 39-45: sendall on an open socket whose peer is gone raises
\* ConnectionResetError, which nothing in data_received catches
RdSendError ==
    /\ Running
    /\ rd_pc = "send"
    /\ CanDecode(rd_cmd, sa_type_id)
    /\ rd_sock = client_socket /\ sock_open
    /\ rd_pc' = "dead"
    /\ rd_err' = "ConnectionResetError"
    /\ NoOutput
    /\ UNCHANGED << socket, buffer, cmd_sent, sa_type_id, rd_cmd, rd_sock,
                    main_vars >>
    /\ UNCHANGED facade

\* lines 39-45: the reply goes out
RdSend ==
    /\ Running
    /\ rd_pc = "send"
    /\ CanDecode(rd_cmd, sa_type_id)
    /\ rd_sock = client_socket /\ sock_open
    /\ net_out' = << ReplyFor(rd_cmd, buffer) >>
    /\ ser_out' = <<>>
    /\ rd_pc' = "reset"
    /\ UNCHANGED << socket, buffer, cmd_sent, sa_type_id, rd_cmd, rd_sock,
                    rd_err, main_vars >>
    /\ UNCHANGED facade

\* RdReset without line 48: the pending command survives the reply
RdResetKeepsPending ==
    /\ Running
    /\ rd_pc = "reset"
    /\ buffer' = <<>>
    /\ rd_pc' = "idle"
    /\ rd_cmd' = None
    /\ rd_sock' = NoSocket
    /\ NoOutput
    /\ UNCHANGED << socket, cmd_sent, sa_type_id, rd_err, main_vars >>
    /\ UNCHANGED facade

\* lines 47-48: self.buffer = []; self.cmd_sent = None
RdReset ==
    /\ Running
    /\ rd_pc = "reset"
    /\ buffer' = <<>>
    /\ cmd_sent' = None
    /\ rd_pc' = "idle"
    /\ rd_cmd' = None
    /\ rd_sock' = NoSocket
    /\ NoOutput
    /\ UNCHANGED << socket, sa_type_id, rd_err, main_vars >>
    /\ UNCHANGED facade

(***************************************************************************)
(* Main thread: the connection loop and the client command loop.           *)
(***************************************************************************)
\* Dispatch comparing txt_cmd with 'exit' without lower()
DispatchExitCaseSensitive(cmd) ==
    LET txt_args == Split(cmd)
    IN  IF cmd = TxtExit THEN "exit"
        ELSE IF Lower(txt_args[1]) = TxtRegister THEN "register"
        ELSE IF Lower(txt_args[1]) = TxtStates THEN "states"
        ELSE IF Len(txt_args) = 6 THEN "bytearray"
        ELSE "unsupported"

\* lines 239-258: the branch the if/elif chain takes for txt_cmd
Dispatch(cmd) ==
    LET txt_args == Split(cmd)
    IN  IF Lower(cmd) = TxtExit THEN "exit"
        ELSE IF Lower(txt_args[1]) = TxtRegister THEN "register"
        ELSE IF Lower(txt_args[1]) = TxtStates THEN "states"
        ELSE IF Len(txt_args) = 6 THEN "bytearray"
        ELSE "unsupported"

\* the command texts the client data gives, and the branch of each,
\* computed once
ClientCmds == { StripNewlines(data) : data \in ClientData }
Branch == [cmd \in ClientCmds |-> Dispatch(cmd)]

\* ParsedTokens with the bases of lines 254 and 256 exchanged
ParsedTokensBasesSwapped(cmd) ==
    LET toks == Split(cmd)
        base == IF StartsWith0x(cmd) THEN 10 ELSE 16
    IN  [i \in 1..Len(toks) |-> ParseInt(toks[i], base)]

\* lines 253-256: [int(n, 16) ...] or [int(n) ...] over txt_cmd.split(',')
ParsedTokens(cmd) ==
    LET toks == Split(cmd)
        base == IF StartsWith0x(cmd) THEN 16 ELSE 10
    IN  [i \in 1..Len(toks) |-> ParseInt(toks[i], base)]

\* int() and bytearray() both return: every token is a number in range(256)
BytesOk(cmd) ==
    LET ps == ParsedTokens(cmd) IN
    \A i \in 1..Len(ps) : ps[i].ok /\ ps[i].val \in 0..MaxByte

\* the bytearray written for the command text
BytesOf(cmd) ==
    LET ps == ParsedTokens(cmd) IN [i \in 1..Len(ps) |-> ps[i].val]

\* lines 213-228: accept a client and hand its socket to the reader
Accept ==
    /\ main_pc = "accept"
    /\ ~ args.client
    /\ client_socket < MaxConns
    /\ client_socket' = client_socket + 1
    /\ sock_open' = TRUE
    /\ socket' = client_socket'
    /\ txt_cmd' = <<>>
    /\ main_pc' = "recv"
    /\ NoOutput
    /\ UNCHANGED << buffer, cmd_sent, sa_type_id, rd_vars, exc >>
    /\ UNCHANGED << args, slept, facade >>

\* lines 232-239: data = client_socket.recv(1024), not empty;
\* txt_cmd = data.decode('utf-8').replace('\r', '').replace('\n', '')
Recv(data) ==
    /\ main_pc = "recv"
    /\ txt_cmd' = StripNewlines(data)
    /\ main_pc' = "dispatch"
    /\ NoOutput
    /\ UNCHANGED << socket, buffer, cmd_sent, sa_type_id, rd_vars, exc,
                    client_socket, sock_open >>
    /\ UNCHANGED << args, slept, facade >>

\* lines 240-241: 'exit' leaves the command loop
DoExit ==
    /\ main_pc = "dispatch"
    /\ Branch[txt_cmd] = "exit"
    /\ main_pc' = "finally"
    /\ NoOutput
    /\ UNCHANGED << socket, buffer, cmd_sent, sa_type_id, rd_vars, txt_cmd,
                    exc, client_socket, sock_open >>
    /\ UNCHANGED << args, slept, facade >>

\* lines 242-243: ser_to_net.cmd_sent = 'register'
SetRegister ==
    /\ main_pc = "dispatch"
    /\ Branch[txt_cmd] = "register"
    /\ cmd_sent' = "register"
    /\ main_pc' = "write_register"
    /\ NoOutput
    /\ UNCHANGED << socket, buffer, sa_type_id, rd_vars, txt_cmd, exc,
                    client_socket, sock_open >>
    /\ UNCHANGED << args, slept, facade >>

\* lines 245-246: ser_to_net.cmd_sent = 'states'
SetStates ==
    /\ main_pc = "dispatch"
    /\ Branch[txt_cmd] = "states"
    /\ cmd_sent' = "states"
    /\ main_pc' = "write_states"
    /\ NoOutput
    /\ UNCHANGED << socket, buffer, sa_type_id, rd_vars, txt_cmd, exc,
                    client_socket, sock_open >>
    /\ UNCHANGED << args, slept, facade >>

\* lines 251-252: six tokens, ser_to_net.cmd_sent = 'bytearray'
SetBytes ==
    /\ main_pc = "dispatch"
    /\ Branch[txt_cmd] = "bytearray"
    /\ cmd_sent' = "bytearray"
    /\ main_pc' = "write_bytes"
    /\ NoOutput
    /\ UNCHANGED << socket, buffer, sa_type_id, rd_vars, txt_cmd, exc,
                    client_socket, sock_open >>
    /\ UNCHANGED << args, slept, facade >>

\* line 258: bytearray(str) without an encoding raises TypeError before
\* sendall is called; no handler of the loop catches it
Unsupported ==
    /\ main_pc = "dispatch"
    /\ Branch[txt_cmd] = "unsupported"
    /\ exc' = "TypeError"
    /\ main_pc' = "finally"
    /\ NoOutput
    /\ UNCHANGED << socket, buffer, cmd_sent, sa_type_id, rd_vars, txt_cmd,
                    client_socket, sock_open >>
    /\ UNCHANGED << args, slept, facade >>

\* line 244: ser.write(bytearray(twseia.create_sa_register_cmd()));
\* txt_cmd is not read again before the next recv
WriteRegister ==
    /\ main_pc = "write_register"
    /\ ser_out' = << create_sa_register_cmd >>
    /\ net_out' = <<>>
    /\ txt_cmd' = <<>>
    /\ main_pc' = "recv"
    /\ UNCHANGED << socket, buffer, cmd_sent, sa_type_id, rd_vars, exc,
                    client_socket, sock_open >>
    /\ UNCHANGED << args, slept, facade >>

\* line 247: ser.write(bytearray(twseia.create_read_all_states_cmd()))
WriteStates ==
    /\ main_pc = "write_states"
    /\ ser_out' = << create_read_all_states_cmd >>
    /\ net_out' = <<>>
    /\ txt_cmd' = <<>>
    /\ main_pc' = "recv"
    /\ UNCHANGED << socket, buffer, cmd_sent, sa_type_id, rd_vars, exc,
                    client_socket, sock_open >>
    /\ UNCHANGED << args, slept, facade >>

\* lines 253-256: the six bytes are written
WriteBytes ==
    /\ main_pc = "write_bytes"
    /\ BytesOk(txt_cmd)
    /\ ser_out' = << RawBytesPdu(BytesOf(txt_cmd)) >>
    /\ net_out' = <<>>
    /\ txt_cmd' = <<>>
    /\ main_pc' = "recv"
    /\ UNCHANGED << socket, buffer, cmd_sent, sa_type_id, rd_vars, exc,
                    client_socket, sock_open >>
    /\ UNCHANGED << args, slept, facade >>

\* lines 253-256: int() or bytearray() raises ValueError, nothing is written
WriteBytesFail ==
    /\ main_pc = "write_bytes"
    /\ ~ BytesOk(txt_cmd)
    /\ exc' = "ValueError"
    /\ main_pc' = "finally"
    /\ NoOutput
    /\ UNCHANGED << socket, buffer, cmd_sent, sa_type_id, rd_vars, txt_cmd,
                    client_socket, sock_open >>
    /\ UNCHANGED << args, slept, facade >>

\* lines 199-210: the client role connects and hands the socket over
Connect ==
    /\ main_pc = "connect"
    /\ args.client
    /\ client_socket < MaxConns
    /\ client_socket' = client_socket + 1
    /\ sock_open' = TRUE
    /\ socket' = client_socket'
    /\ txt_cmd' = <<>>
    /\ main_pc' = "recv"
    /\ NoOutput
    /\ UNCHANGED << buffer, cmd_sent, sa_type_id, rd_vars, exc >>
    /\ UNCHANGED << args, slept, facade >>

\* lines 203-207: connect raises socket.error; time.sleep(5); continue
ConnectFail ==
    /\ main_pc = "connect"
    /\ args.client
    /\ slept' = ReconnectDelay
    /\ NoOutput
    /\ UNCHANGED << socket, buffer, cmd_sent, sa_type_id, rd_vars, main_pc,
                    txt_cmd, exc, client_socket, sock_open >>
    /\ UNCHANGED << args, facade >>

\* lines 260-265: recv raises socket.error: re-raised with --develop,
\* else the command loop is left
SocketError ==
    /\ main_pc = "recv"
    /\ exc' = IF args.develop THEN "socket.error" ELSE exc
    /\ main_pc' = "finally"
    /\ NoOutput
    /\ UNCHANGED << socket, buffer, cmd_sent, sa_type_id, rd_vars, txt_cmd,
                    client_socket, sock_open >>
    /\ UNCHANGED << args, slept, facade >>

\* lines 266-268: Ctrl-C inside a session: intentional_exit = True; raise
Interrupt ==
    /\ main_pc \in {"recv", "dispatch", "write_register", "write_states",
                    "write_bytes"}
    /\ exc' = "KeyboardInterrupt"
    /\ main_pc' = "finally"
    /\ NoOutput
    /\ UNCHANGED << socket, buffer, cmd_sent, sa_type_id, rd_vars, txt_cmd,
                    client_socket, sock_open >>
    /\ UNCHANGED << args, slept, facade >>

\* lines 208-226, 279: Ctrl-C after accept or connect has returned and
\* before the try of line 227: the loop is left with the new socket open
InterruptConnected ==
    /\ main_pc \in {"accept", "connect"}
    /\ client_socket < MaxConns
    /\ client_socket' = client_socket + 1
    /\ sock_open' = TRUE
    /\ exc' = "KeyboardInterrupt"
    /\ main_pc' = "exiting"
    /\ NoOutput
    /\ UNCHANGED << socket, buffer, cmd_sent, sa_type_id, rd_vars, txt_cmd >>
    /\ UNCHANGED << args, slept, facade >>

\* lines 273-279: Ctrl-C inside the finally block, before line 274 or
\* before line 276: it replaces a pending exception, the rest of the block
\* is skipped and the loop is left
InterruptFinally ==
    /\ main_pc \in {"finally", "close"}
    /\ exc' = "KeyboardInterrupt"
    /\ main_pc' = "exiting"
    /\ NoOutput
    /\ UNCHANGED << socket, buffer, cmd_sent, sa_type_id, rd_vars, txt_cmd,
                    client_socket, sock_open >>
    /\ UNCHANGED << args, slept, facade >>

\* lines 277-279: Ctrl-C after client_socket.close() has returned, before
\* or during time.sleep(5): it replaces a pending exception and the loop
\* is left with the socket closed
InterruptLeave ==
    /\ main_pc = "leave"
    /\ slept' \in IF args.client /\ exc # "KeyboardInterrupt"
                  THEN {slept, ReconnectDelay} ELSE {slept}
    /\ exc' = "KeyboardInterrupt"
    /\ main_pc' = "exiting"
    /\ NoOutput
    /\ UNCHANGED << socket, buffer, cmd_sent, sa_type_id, rd_vars, txt_cmd,
                    client_socket, sock_open >>
    /\ UNCHANGED << args, facade >>

\* lines 197-213, 279: Ctrl-C while waiting for a connection leaves the loop
InterruptWaiting ==
    /\ main_pc \in {"accept", "connect"}
    /\ exc' = "KeyboardInterrupt"
    /\ main_pc' = "exiting"
    /\ NoOutput
    /\ UNCHANGED << socket, buffer, cmd_sent, sa_type_id, rd_vars, txt_cmd,
                    client_socket, sock_open >>
    /\ UNCHANGED << args, slept, facade >>

\* lines 282-283: Ctrl-C outside the try: the KeyboardInterrupt is not
\* caught and ends the program before serial_worker.stop()
InterruptExiting ==
    /\ main_pc = "exiting"
    /\ exc' = "KeyboardInterrupt"
    /\ main_pc' = "crashed"
    /\ NoOutput
    /\ UNCHANGED << socket, buffer, cmd_sent, sa_type_id, rd_vars, txt_cmd,
                    client_socket, sock_open >>
    /\ UNCHANGED << args, slept, facade >>

\* lines 280-283: the exit banner and serial_worker.stop() end the reader
\* and the program
Stop ==
    /\ main_pc = "exiting"
    /\ main_pc' = "exited"
    /\ NoOutput
    /\ UNCHANGED << socket, buffer, cmd_sent, sa_type_id, rd_vars, txt_cmd,
                    exc, client_socket, sock_open >>
    /\ UNCHANGED << args, slept, facade >>

\* lines 232-234: recv returns no data: the peer has closed
PeerClose ==
    /\ main_pc = "recv"
    /\ main_pc' = "finally"
    /\ NoOutput
    /\ UNCHANGED << socket, buffer, cmd_sent, sa_type_id, rd_vars, txt_cmd,
                    exc, client_socket, sock_open >>
    /\ UNCHANGED << args, slept, facade >>

\* Finally without line 274: the reader keeps the socket reference
FinallyKeepsSocket ==
    /\ main_pc = "finally"
    /\ main_pc' = "close"
    /\ NoOutput
    /\ UNCHANGED << socket, buffer, cmd_sent, sa_type_id, rd_vars, txt_cmd,
                    exc, client_socket, sock_open >>
    /\ UNCHANGED << args, slept, facade >>

\* line 274: ser_to_net.socket = None
Finally ==
    /\ main_pc = "finally"
    /\ socket' = NoSocket
    /\ main_pc' = "close"
    /\ NoOutput
    /\ UNCHANGED << buffer, cmd_sent, sa_type_id, rd_vars, txt_cmd, exc,
                    client_socket, sock_open >>
    /\ UNCHANGED << args, slept, facade >>

\* line 276: client_socket.close()
Close ==
    /\ main_pc = "close"
    /\ sock_open' = FALSE
    /\ main_pc' = "leave"
    /\ NoOutput
    /\ UNCHANGED << socket, buffer, cmd_sent, sa_type_id, rd_vars, txt_cmd,
                    exc, client_socket >>
    /\ UNCHANGED << args, slept, facade >>

\* lines 277-279: the client role sleeps unless the exit is intentional;
\* then the loop goes on, a KeyboardInterrupt is swallowed by line 279, or
\* the pending exception ends the program
Leave ==
    /\ main_pc = "leave"
    /\ slept' = IF args.client /\ exc # "KeyboardInterrupt"
                THEN ReconnectDelay ELSE slept
    /\ main_pc' = IF exc = "KeyboardInterrupt" THEN "exiting"
                  ELSE IF exc # "none" THEN "crashed"
                  ELSE IF args.client THEN "connect" ELSE "accept"
    /\ NoOutput
    /\ UNCHANGED << socket, buffer, cmd_sent, sa_type_id, rd_vars, txt_cmd,
                    exc, client_socket, sock_open >>
    /\ UNCHANGED << args, facade >>

Next ==
    \/ \E data_bytes \in Chunks : DataReceived(data_bytes)
    \/ RdReadCmd
    \/ RdReadCmd2
    \/ RdLoadSocket
    \/ RdLoadNone
    \/ RdDecodeFail
    \/ RdSendClosed
    \/ RdSend
    \/ RdReset
    \/ Accept
    \/ \E data \in ClientData : Recv(data)
    \/ DoExit
    \/ SetRegister
    \/ SetStates
    \/ SetBytes
    \/ Unsupported
    \/ WriteRegister
    \/ WriteStates
    \/ WriteBytes
    \/ WriteBytesFail
    \/ PeerClose
    \/ Finally
    \/ Close
    \/ Leave

\* the server bridge of Init with every client text and serial chunk, on
\* a transport that does not fail
Spec == Init /\ [][Next]_vars

\* the response packets handed to the parsers of the facade
FacadeBytes == {0, 1, 65}
FacadeData == UNION { [1..n -> FacadeBytes] : n \in 0..MaxData }

\* the variables of the bridge, which a call of a parser leaves alone
bridge_vars == << socket, buffer, cmd_sent, sa_type_id, rd_vars, main_vars,
                 ser_out, net_out >>

\* a call of twseia.parsing_sa_class_id_response
ParseClassId(packet) ==
    /\ facade = NoCall
    /\ facade' = [fn |-> "parsing_sa_class_id_response",
                  packet |-> packet,
                  result |-> parsing_sa_class_id_response(packet)]
    /\ UNCHANGED bridge_vars

\* a call of twseia.parsing_sa_protocol_version_response
ParseProtocolVersion(packet) ==
    /\ facade = NoCall
    /\ facade' = [fn |-> "parsing_sa_protocol_version_response",
                  packet |-> packet,
                  result |-> parsing_sa_protocol_version_response(packet)]
    /\ UNCHANGED bridge_vars

\* a call of twseia.parsing_sa_dev_type_response
ParseDevType(packet) ==
    /\ facade = NoCall
    /\ facade' = [fn |-> "parsing_sa_dev_type_response",
                  packet |-> packet,
                  result |-> parsing_sa_dev_type_response(packet)]
    /\ UNCHANGED bridge_vars

\* a call of twseia.parsing_sa_brand_response
ParseBrand(packet) ==
    /\ facade = NoCall
    /\ facade' = [fn |-> "parsing_sa_brand_response",
                  packet |-> packet,
                  result |-> parsing_sa_brand_response(packet)]
    /\ UNCHANGED bridge_vars

\* a call of twseia.parsing_sa_model_response
ParseModel(packet) ==
    /\ facade = NoCall
    /\ facade' = [fn |-> "parsing_sa_model_response",
                  packet |-> packet,
                  result |-> parsing_sa_model_response(packet)]
    /\ UNCHANGED bridge_vars

\* a call of twseia.parsing_dehumidifier_services_response
ParseServices(packet) ==
    /\ facade = NoCall
    /\ facade' = [fn |-> "parsing_dehumidifier_services_response",
                  packet |-> packet,
                  result |-> parsing_dehumidifier_services_response(packet)]
    /\ UNCHANGED bridge_vars

\* a call of twseia.parsing_dehumidifier_all_states_response
ParseAllStates(packet) ==
    /\ facade = NoCall
    /\ facade' = [fn |-> "parsing_dehumidifier_all_states_response",
                  packet |-> packet,
                  result |-> parsing_dehumidifier_all_states_response(packet)]
    /\ UNCHANGED bridge_vars

FacadePackets == { Packet(sid, bs) : sid \in ServiceIds, bs \in FacadeData }

NextFacade ==
    \/ \E packet \in FacadePackets : ParseClassId(packet)
    \/ \E packet \in FacadePackets : ParseProtocolVersion(packet)
    \/ \E packet \in FacadePackets : ParseDevType(packet)
    \/ \E packet \in FacadePackets : ParseBrand(packet)
    \/ \E packet \in FacadePackets : ParseModel(packet)
    \/ \E packet \in FacadePackets : ParseServices(packet)
    \/ \E packet \in FacadePackets : ParseAllStates(packet)

\* one parser of the facade applied to one response packet: the parsers
\* keep no state, so a call does not depend on the calls before it
SpecFacade == Init /\ [][NextFacade]_vars

\* the inputs of the bridge under every command line: a zero header, the
\* one-byte frame, and a two-byte frame that carries the largest byte
ArgsChunks == {<<0>>, <<1>>, <<2, MaxByte>>}
ArgsData == {TxtExit, TxtRegister, TxtStates, TxtFoo, TxtDec, TxtTooBig}

NextArgs ==
    \/ \E data_bytes \in ArgsChunks : DataReceived(data_bytes)
    \/ RdReadCmd
    \/ RdReadCmd2
    \/ RdLoadSocket
    \/ RdLoadNone
    \/ RdDecodeFail
    \/ RdSendClosed
    \/ RdSendError
    \/ RdSend
    \/ RdReset
    \/ Accept
    \/ Connect
    \/ ConnectFail
    \/ \E data \in ArgsData : Recv(data)
    \/ DoExit
    \/ SetRegister
    \/ SetStates
    \/ SetBytes
    \/ Unsupported
    \/ WriteRegister
    \/ WriteStates
    \/ WriteBytes
    \/ WriteBytesFail
    \/ PeerClose
    \/ SocketError
    \/ Interrupt
    \/ InterruptWaiting
    \/ InterruptConnected
    \/ InterruptFinally
    \/ InterruptLeave
    \/ InterruptExiting
    \/ Stop
    \/ Finally
    \/ Close
    \/ Leave

\* the bridge under every command line, with operator interrupts
SpecArgs == InitArgs /\ [][NextArgs]_vars

\* types of the state
TypeOK ==
    /\ socket \in 0..MaxConns
    /\ cmd_sent \in {None, "register", "states", "bytearray"}
    /\ rd_pc \in {"idle", "dispatch", "dispatch2", "load", "send", "reset",
                  "dead"}
    /\ main_pc \in {"accept", "connect", "recv", "dispatch",
                    "write_register", "write_states", "write_bytes",
                    "finally", "close", "leave", "exiting", "crashed",
                    "exited"}
    /\ args \in ArgsSet
    /\ slept \in {0, ReconnectDelay}
    /\ txt_cmd \in ClientCmds \cup {<<>>}
    /\ Len(buffer) <= MaxBuf
    /\ Len(net_out) <= 1
    /\ Len(ser_out) <= 1

(***************************************************************************)
(* Properties.                                                             *)
(***************************************************************************)
\* a step of the main thread, a step of the reader thread
MainStep == main_pc' # main_pc
RdStep == rd_pc' # rd_pc

\* C1: once data_received has returned for the chunk that delivers the last
\* byte of a frame of length L >= 2 to a connected client, the frame has
\* been replied to and the buffer is empty: no complete frame stays in the
\* buffer of a reader that is not inside data_received.
C1_FrameEmittedAndCleared ==
    (/\ rd_pc \in {"idle", "dead"}
     /\ rd_err # "OSError"
     /\ ~ (rd_err = "AttributeError" /\ rd_sock = NoSocket))
        => ~ (Len(buffer) >= 2 /\ FrameComplete(buffer))

\* C2: the pending command is serialized: while a command is pending, no
\* other client command replaces it; it only goes back to None when its
\* frame is resolved.
C2_PendingNeverOverwritten ==
    [][(cmd_sent # None /\ cmd_sent' # cmd_sent) => cmd_sent' = None]_vars

\* C3: every completed frame whose client socket is open gets exactly one
\* reply, of the kind the pending command selects: register, states, or the
\* frame bytes as a comma-separated decimal list.
C3_OneReplyPerFrame ==
    [][(rd_pc = "send" /\ RdStep /\ rd_sock = client_socket /\ sock_open)
        => /\ Len(net_out') = 1
           /\ net_out'[1].kind = (IF rd_cmd = "register" THEN "register"
                                  ELSE IF rd_cmd = "states" THEN "states"
                                  ELSE "raw")
           /\ rd_cmd = "else" => net_out'[1].text = RawResponse(buffer)]_vars

\* C4: the step of data_received that follows a reply leaves the pending
\* command None and the buffer empty, with the reader ready for the first
\* byte of a new frame.
C4_ResetAfterReply ==
    [][(rd_pc = "reset" /\ RdStep)
        => (cmd_sent' = None /\ buffer' = <<>> /\ rd_pc' = "idle")]_vars

\* C4 witness: a register frame has just been replied to, the pending
\* command is still set and the reset is the reader's next step
C4_Witness ==
    /\ rd_pc = "reset"
    /\ cmd_sent = "register"
    /\ net_out = << [kind |-> "register", text |-> <<>>, pdu |-> buffer] >>

\* the texts 'register', 'REGISTER' and 'states', 'States'
C5_RegisterTexts == {TxtRegister, StripNewlines(TxtRegisterUpper)}
C5_StatesTexts == {TxtStates, StripNewlines(TxtStatesMixed)}

\* C5: 'register' / 'states' in any case first set the pending command,
\* writing nothing, then write exactly one InfoRequest PDU of the right
\* type and go back to recv; the client is sent something only by the
\* reader holding a complete frame.
C5_RegisterStatesDispatch ==
    [][ /\ (main_pc = "dispatch" /\ txt_cmd \in C5_RegisterTexts /\ MainStep)
            => (cmd_sent' = "register" /\ main_pc' = "write_register"
                /\ ser_out' = <<>> /\ net_out' = <<>>)
        /\ (main_pc = "dispatch" /\ txt_cmd \in C5_StatesTexts /\ MainStep)
            => (cmd_sent' = "states" /\ main_pc' = "write_states"
                /\ ser_out' = <<>> /\ net_out' = <<>>)
        /\ (main_pc = "write_register" /\ MainStep)
            => (ser_out' = << [kind |-> "InfoRequest",
                               sa_info_type |-> "REGISTRATION",
                               bytes |-> <<>>] >>
                /\ net_out' = <<>> /\ main_pc' = "recv")
        /\ (main_pc = "write_states" /\ MainStep)
            => (ser_out' = << [kind |-> "InfoRequest",
                               sa_info_type |-> "READ_CURRENT_SERVICES_STATES",
                               bytes |-> <<>>] >>
                /\ net_out' = <<>> /\ main_pc' = "recv")
        /\ (net_out' # <<>>) => (rd_pc = "send" /\ FrameComplete(buffer))
      ]_vars

\* C5 witness: the registration request has just been written with the
\* pending command set
C5_Witness ==
    /\ main_pc = "recv"
    /\ cmd_sent = "register"
    /\ ser_out = << [kind |-> "InfoRequest", sa_info_type |-> "REGISTRATION",
                     bytes |-> <<>>] >>

\* the six-token texts of the model and the bytes each stands for
C6_Expected ==
    [t \in {TxtDec, TxtHex, StripNewlines(TxtDecWide), TxtHexMixed} |->
        IF t = TxtDec THEN <<1, 2, 3, 4, 5, 6>>
        ELSE IF t = TxtHex THEN <<1, 2, 3, 4, 5, 6>>
        ELSE IF t = TxtHexMixed THEN <<255, 16, 10, 0, 1, 2>>
        ELSE <<10, 255, 0, 7, 8, 9>>]

\* C6: six integer tokens, decimal or (line starting with 0x) hexadecimal,
\* set the pending command to 'bytearray' and then write exactly the six
\* byte values, in order.
C6_SixBytesVerbatim ==
    [][\A t \in DOMAIN C6_Expected :
        /\ (main_pc = "dispatch" /\ txt_cmd = t /\ MainStep)
            => (cmd_sent' = "bytearray" /\ main_pc' = "write_bytes"
                /\ ser_out' = <<>>)
        /\ (main_pc = "write_bytes" /\ txt_cmd = t /\ MainStep)
            => (ser_out' = << [kind |-> "bytearray", sa_info_type |-> "-",
                               bytes |-> C6_Expected[t]] >>
                /\ main_pc' = "recv")
      ]_vars

\* C6 witness: the bytes 1..6 have just been written with the pending
\* command set to 'bytearray'
C6_Witness ==
    /\ main_pc = "recv"
    /\ cmd_sent = "bytearray"
    /\ ser_out = << [kind |-> "bytearray", sa_info_type |-> "-",
                     bytes |-> <<1, 2, 3, 4, 5, 6>>] >>

\* 'cmd foo not support.'
C7_FooReply == <<"c","m","d"," ","f","o","o"," ","n","o","t"," ",
                 "s","u","p","p","o","r","t",".">>

\* C7: the unsupported text 'foo' is answered at once with
\* 'cmd foo not support.', nothing is written to the serial port and the
\* pending command stays as it was.
C7_UnsupportedReplied ==
    [][(main_pc = "dispatch" /\ txt_cmd = TxtFoo /\ MainStep)
        => /\ Len(net_out') = 1
           /\ net_out'[1].text = C7_FooReply
           /\ ser_out' = <<>>
           /\ cmd_sent' = cmd_sent]_vars

\* the texts 'exit', 'EXIT', 'Exit'
C8_ExitTexts == {TxtExit, TxtExitUpper, StripNewlines(TxtExitCrLf)}

\* C8: 'exit' in any case leaves the command loop without an exception,
\* without a serial write and without touching the pending command; the
\* session then ends by clearing the reader's socket reference and closing
\* the socket, so that both have happened when the loop waits for the next
\* client.
C8_ExitEndsSession ==
    /\ [][ /\ (main_pc = "dispatch" /\ txt_cmd \in C8_ExitTexts /\ MainStep)
               => (main_pc' = "finally" /\ exc' = "none" /\ ser_out' = <<>>
                   /\ net_out' = <<>> /\ cmd_sent' = cmd_sent)
           /\ (main_pc = "finally" /\ MainStep)
               => (socket' = NoSocket /\ main_pc' = "close"
                   /\ ser_out' = <<>> /\ cmd_sent' = cmd_sent)
           /\ (main_pc = "close" /\ MainStep)
               => (~ sock_open' /\ ser_out' = <<>> /\ cmd_sent' = cmd_sent)
         ]_vars
    /\ []((main_pc = "accept" /\ txt_cmd \in C8_ExitTexts)
            => (socket = NoSocket /\ ~ sock_open))

\* C8 witness: 'EXIT' has ended the session and the loop waits for the next
\* client
C8_Witness ==
    /\ main_pc = "accept"
    /\ txt_cmd = TxtExitUpper
    /\ socket = NoSocket
    /\ ~ sock_open

\* C9: a buffer whose first byte is 0 is never kept silently: the reader
\* has signalled ZeroLengthHeader.
C9_ZeroHeaderSignalled ==
    (buffer # <<>> /\ buffer[1] = 0) => rd_err = "ZeroLengthHeader"

\* C10: the buffer never holds more bytes than its first byte declares
\* (hence never more than the largest frame), unless the reader has failed
\* with FrameTooLarge.
C10_BufferBounded ==
    (buffer # <<>> /\ buffer[1] >= 1)
        => (Len(buffer) <= buffer[1] \/ rd_err = "FrameTooLarge")

\* C11: every frame the assembler hands to the decoding and reply steps has
\* as many bytes as its first byte says and at least two of them; the lone
\* byte 1 is never taken for a complete frame.
C11_EmittedFrameWellFormed ==
    rd_pc \in {"dispatch", "dispatch2", "load", "send", "reset"}
        => (Len(buffer) >= 2 /\ Len(buffer) = buffer[1])

\* C12: when decoding a completed frame fails, the step that fails clears
\* the buffer, resets the pending command to None, sends the client an
\* error reply and leaves the reader ready for the next frame.
C12_DecodeFailureRecovered ==
    [][(rd_pc = "send" /\ rd_cmd \in {"register", "states"}
        /\ rd_err' \in {"CodecError", "AttributeError"})
        => /\ buffer' = <<>>
           /\ cmd_sent' = None
           /\ Len(net_out') = 1
           /\ rd_pc' = "idle"]_vars

\* C13: no client line ends the process, which only an operator interrupt
\* does, and a line that sets the pending command 'bytearray' is followed
\* by a write to the serial port unless the operator interrupts.
C13_NoClientLineEndsProcess ==
    /\ [](~ (main_pc = "crashed" /\ exc \in {"TypeError", "ValueError"}))
    /\ [][(main_pc = "write_bytes" /\ MainStep
            /\ exc' # "KeyboardInterrupt")
           => Len(ser_out') = 1]_vars

\* C14: when a connection is established and right after one has ended
\* the pending command is None and the assembler buffer is empty.
C14_SessionStateReset ==
    [][(\/ main_pc \in {"accept", "connect"} /\ main_pc' = "recv"
        \/ main_pc = "close" /\ MainStep)
       => (cmd_sent' = None /\ buffer' = <<>>)]_vars

\* C15: the bridge accepts or establishes a connection only when the
\* previous client socket is closed and the reader's socket reference is
\* cleared, so the reader's reference is never a socket other than the one
\* being served.
C15_OneClientAtATime ==
    /\ [][(main_pc \in {"accept", "connect"} /\ main_pc' = "recv")
           => (~ sock_open /\ socket = NoSocket)]_vars
    /\ [](socket # NoSocket => (socket = client_socket /\ sock_open))
    /\ [](main_pc \in {"accept", "connect"}
            => (~ sock_open /\ socket = NoSocket))

\* a second connection is served after the first one has ended
C15_Witness ==
    /\ client_socket = 2
    /\ main_pc = "recv"
    /\ socket = 2
    /\ sock_open

\* C16: a transport error on the client socket ends neither the process
\* nor the serial reader, and the client role never sleeps for anything
\* but the fixed delay.
C16_TransportErrorEndsOnlyConnection ==
    /\ ~ (main_pc = "crashed" /\ exc = "socket.error")
    /\ ~ (rd_pc = "dead" /\ rd_err = "ConnectionResetError")
    /\ slept \in {0, ReconnectDelay}

\* C17: whenever a completed frame is about to be decoded as an all-states
\* response, SerialToNet.sa_type_id is the SA_TYPE_ID of the command line.
C17_StatesDecodedWithConfiguredType ==
    (rd_pc = "send" /\ rd_cmd = "states") => sa_type_id = args.sa_type_id

\* the service id each parser of the facade answers
C18_Expected ==
    [parsing_sa_class_id_response |-> "READ_CLASS_ID",
     parsing_sa_protocol_version_response |-> "READ_PROTOCOL_VERSION",
     parsing_sa_dev_type_response |-> "READ_TYPE_ID",
     parsing_sa_brand_response |-> "READ_BRAND",
     parsing_sa_model_response |-> "READ_MODEL",
     parsing_dehumidifier_services_response |-> "READ_SUPPORTED_SERVICES",
     parsing_dehumidifier_all_states_response |->
         "READ_CURRENT_SERVICES_STATES"]

\* C18: a parser of the facade returns a value only for a packet whose
\* service id is the one the parser answers.
C18_ServiceIdChecked ==
    facade.result.ok => facade.packet.service_id = C18_Expected[facade.fn]

\* C19: when the reader resets the pending command after a reply and the
\* pending command is a tag other than the one the reply was formatted
\* with, that tag belongs to a command issued in the meantime and is kept.
C19_NewerTagSurvivesReset ==
    [][(rd_pc = "reset" /\ RdStep /\ cmd_sent # None
        /\ cmd_sent # (IF rd_cmd = "else" THEN "bytearray" ELSE rd_cmd))
       => cmd_sent' = cmd_sent]_vars

\* C20: the reader never evaluates sendall on a socket reference that is
\* None (it dies before it has loaded a socket) and never calls it on a
\* socket the main thread has closed.
C20_ReplySocketValid ==
    /\ ~ (rd_pc = "dead" /\ rd_err = "AttributeError" /\ rd_sock = NoSocket)
    /\ ~ (rd_pc = "dead" /\ rd_err = "OSError")

====
